---- MODULE Spec2Model ----
(***************************************************************************)
(* PhotoTools: the EXIF analysis pipeline of stats.py (get_exif_data,      *)
(* parse_exif, analyze_folder) and the backup workflow of pictureBackup.py *)
(* (main and the functions it calls).                                      *)
(*                                                                         *)
(* Text is a sequence of one-character strings, so that str.split, float() *)
(* and str.endswith are computed character by character.  A Python float   *)
(* is an exact rational n/d (d > 0, lowest terms) or one of nan, inf,      *)
(* -inf; rounding of the binary representation is not modelled.  An        *)
(* Optional value is a sequence of length 0 (None) or 1.                   *)
(***************************************************************************)
EXTENDS Integers, Sequences, FiniteSets, TLC

VARIABLES
    lib,            \* the files under folder_path, in os.walk order
    min_rating,     \* analyze_folder argument
    selected_lens,  \* analyze_folder argument: None or a lens name
    pc,             \* position of analyze_folder
    image_paths,    \* indices into lib of the candidate files
    task,           \* image_paths position -> "queued" | "running" | "done"
    results,        \* image_paths position -> outcome of get_exif_data
    df,             \* the DataFrame: [cols, rows]
    dirExists,      \* OUTPUT_FOLDER exists
    madeDir,        \* os.makedirs(OUTPUT_FOLDER) succeeded in the current run
    outFiles,       \* the files in OUTPUT_FOLDER
    outcome,        \* how the current run ended
    run,            \* number of the current run (its timestamp)
    history,        \* run number -> the row set that run ended with
    bk              \* state of pictureBackup.main

vars == <<lib, min_rating, selected_lens, pc, image_paths, task, results, df,
          dirExists, madeDir, outFiles, outcome, run, history, bk>>

----------------------------------------------------------------------------
(* Bounds *)

MaxFiles == 2
PoolSize == 2
MaxRuns == 2
MaxParts == 2
MaxDirs == 2

----------------------------------------------------------------------------
(* Optional values *)

None == << >>
Some(x) == <<x>>
IsNone(o) == o = << >>
Get(o) == o[1]

----------------------------------------------------------------------------
(* Python floats *)

RECURSIVE GCD(_, _)
GCD(a, b) == IF b = 0 THEN a ELSE GCD(b, a % b)

Abs(x) == IF x < 0 THEN -x ELSE x

NaN == [k |-> "nan", n |-> 0, d |-> 1]
PosInf == [k |-> "inf", n |-> 1, d |-> 1]
NegInf == [k |-> "inf", n |-> -1, d |-> 1]

\* the float n/d, in lowest terms with a positive denominator
Num(n, d) ==
    LET g == GCD(Abs(n), Abs(d))
        s == IF d < 0 THEN -1 ELSE 1
    IN  [k |-> "num", n |-> (s * n) \div g, d |-> (s * d) \div g]

IsNaN(x) == x.k = "nan"
Sign(x) == IF x.n > 0 THEN 1 ELSE IF x.n < 0 THEN -1 ELSE 0

\* x < y on floats: every comparison with nan is False
Lt(x, y) ==
    CASE IsNaN(x) \/ IsNaN(y) -> FALSE
      [] x.k = "inf" /\ y.k = "inf" -> x.n < y.n
      [] x.k = "inf" -> x.n < 0
      [] y.k = "inf" -> y.n > 0
      [] OTHER -> x.n * y.d < y.n * x.d

\* x != 0 on floats
NonZero(x) == ~(x.k = "num" /\ x.n = 0)

\* x / y on floats, for y != 0
Div(x, y) ==
    CASE IsNaN(x) \/ IsNaN(y) -> NaN
      [] x.k = "inf" /\ y.k = "inf" -> NaN
      [] x.k = "inf" -> IF Sign(x) * Sign(y) > 0 THEN PosInf ELSE NegInf
      [] y.k = "inf" -> Num(0, 1)
      [] OTHER -> Num(x.n * y.d, x.d * y.n)

----------------------------------------------------------------------------
(* Text *)

Digits == {"0", "1", "2", "3", "4", "5", "6", "7", "8", "9"}

DigitVal(c) ==
    CASE c = "0" -> 0 [] c = "1" -> 1 [] c = "2" -> 2 [] c = "3" -> 3
      [] c = "4" -> 4 [] c = "5" -> 5 [] c = "6" -> 6 [] c = "7" -> 7
      [] c = "8" -> 8 [] c = "9" -> 9

RECURSIVE DecVal(_)
DecVal(s) ==
    IF s = << >> THEN 0
    ELSE 10 * DecVal(SubSeq(s, 1, Len(s) - 1)) + DigitVal(s[Len(s)])

RECURSIVE Pow10(_)
Pow10(e) == IF e = 0 THEN 1 ELSE 10 * Pow10(e - 1)

AllDigits(s) == \A i \in 1..Len(s) : s[i] \in Digits

\* str.lower
LowerChar(c) ==
    CASE c = "J" -> "j" [] c = "P" -> "p" [] c = "G" -> "g"
      [] c = "I" -> "i" [] c = "N" -> "n" [] c = "F" -> "f" [] c = "A" -> "a"
      [] c = "T" -> "t" [] c = "Y" -> "y"
      [] OTHER -> c
Lower(s) == [i \in 1..Len(s) |-> LowerChar(s[i])]

\* str.endswith
EndsWith(s, suffix) ==
    /\ Len(s) >= Len(suffix)
    /\ SubSeq(s, Len(s) - Len(suffix) + 1, Len(s)) = suffix

\* value.split('/')
RECURSIVE Split(_)
Split(s) ==
    IF \A i \in 1..Len(s) : s[i] # "/" THEN <<s>>
    ELSE LET p == CHOOSE i \in 1..Len(s) :
                      s[i] = "/" /\ \A j \in 1..(i - 1) : s[j] # "/"
         IN  <<SubSeq(s, 1, p - 1)>> \o Split(SubSeq(s, p + 1, Len(s)))

\* '/' in value
HasSlash(s) == \E i \in 1..Len(s) : s[i] = "/"

\* float(text): Some(value), or None for ValueError.  Accepted: an optional
\* sign, then inf, infinity or nan in any case, or decimal digits with an
\* optional point.  Exponents, underscores and surrounding blanks are
\* outside the alphabet of the modelled tag values.
ParseUnsigned(s) ==
    LET low == Lower(s)
        dots == {i \in 1..Len(s) : s[i] = "."}
    IN  IF low = <<"n", "a", "n">> THEN Some(NaN)
        ELSE IF low = <<"i", "n", "f">> THEN Some(PosInf)
        ELSE IF low = <<"i", "n", "f", "i", "n", "i", "t", "y">> THEN Some(PosInf)
        ELSE IF s = << >> THEN None
        ELSE IF dots = {} THEN
            IF AllDigits(s) THEN Some(Num(DecVal(s), 1)) ELSE None
        ELSE IF Cardinality(dots) > 1 THEN None
        ELSE LET p == CHOOSE i \in dots : TRUE
                 ip == SubSeq(s, 1, p - 1)
                 fp == SubSeq(s, p + 1, Len(s))
             IN  IF Len(s) > 1 /\ AllDigits(ip) /\ AllDigits(fp)
                 THEN Some(Num(DecVal(ip \o fp), Pow10(Len(fp))))
                 ELSE None

Neg(x) ==
    CASE IsNaN(x) -> NaN
      [] OTHER -> [x EXCEPT !.n = -x.n]

float(s) ==
    IF s # << >> /\ s[1] = "-" THEN
        LET r == ParseUnsigned(Tail(s))
        IN  IF IsNone(r) THEN None ELSE Some(Neg(Get(r)))
    ELSE IF s # << >> /\ s[1] = "+" THEN ParseUnsigned(Tail(s))
    ELSE ParseUnsigned(s)

----------------------------------------------------------------------------
(* stats.py: constants and the modelled library *)

\* IMAGE_EXTENSIONS
IMAGE_EXTENSIONS ==
    { <<".", "j", "p", "g">>, <<".", "j", "p", "e", "g">>,
      <<".", "t", "i", "f", "f">>, <<".", "d", "n", "g">>,
      <<".", "n", "e", "f">>, <<".", "c", "r", "2">>,
      <<".", "a", "r", "w">> }

NumericTags ==
    {"EXIF FNumber", "EXIF ISOSpeedRatings", "EXIF ExposureTime",
     "EXIF FocalLength"}

\* a file whose every tag decodes: rating 5, f/2.8, ISO 200, 1/250 s, 50 mm
GoodTags ==
    [t \in {"Image Rating", "EXIF LensModel"} \cup NumericTags |->
        CASE t = "Image Rating" -> <<"5">>
          [] t = "EXIF FNumber" -> <<"2", "8", "/", "1", "0">>
          [] t = "EXIF ISOSpeedRatings" -> <<"2", "0", "0">>
          [] t = "EXIF ExposureTime" -> <<"1", "/", "2", "5", "0">>
          [] t = "EXIF FocalLength" -> <<"5", "0">>
          [] t = "EXIF LensModel" -> <<"A">>]

With(tags, tag, value) == [tags EXCEPT ![tag] = value]
Without(tags, tag) == [t \in DOMAIN tags \ {tag} |-> tags[t]]

RatingTexts ==
    { <<"2">>, <<"n", "a", "n">>, <<"x">>, <<"1", "/", "x">> }

ExposureTexts ==
    { <<"1", "/", "0">>, <<"0", "/", "1">>, <<"0">>, <<"-", "1">>,
      <<"i", "n", "f">>, <<"1", "/", "2", "/", "3">>, <<"0", ".", "5">> }

\* the tag dictionaries exifread.process_file can hand back: GoodTags with
\* one tag changed or missing
TagMaps ==
    {GoodTags}
    \cup {With(GoodTags, "Image Rating", v) : v \in RatingTexts}
    \cup {With(GoodTags, "EXIF ExposureTime", v) : v \in ExposureTexts}
    \cup {Without(GoodTags, t) :
             t \in {"Image Rating", "EXIF ISOSpeedRatings", "EXIF LensModel"}}
    \cup {With(GoodTags, "EXIF FNumber", <<"4", "/", "0">>),
          With(GoodTags, "EXIF FocalLength", <<"x", "/", "0">>),
          With(GoodTags, "EXIF LensModel", <<"B">>)}

JpgName == <<"a", ".", "j", "p", "g">>

\* the files a library is made of
Files ==
    {[name |-> JpgName, readable |-> TRUE, tags |-> m] : m \in TagMaps}
    \cup {[name |-> JpgName, readable |-> FALSE, tags |-> GoodTags],
          [name |-> <<"b", ".", "J", "P", "G">>, readable |-> TRUE,
           tags |-> GoodTags],
          [name |-> <<"n", ".", "t", "x", "t">>, readable |-> TRUE,
           tags |-> GoodTags]}

\* the files a library may hold several of
CoreFiles ==
    {f \in Files :
        /\ f.name = JpgName
        /\ \/ ~f.readable
           \/ f.tags \in {GoodTags,
                          With(GoodTags, "Image Rating", <<"2">>),
                          With(GoodTags, "Image Rating", <<"1", "/", "x">>),
                          Without(GoodTags, "Image Rating"),
                          With(GoodTags, "EXIF LensModel", <<"B">>)}}

\* the files of the rating scenario: no rating, rating 2, rating 5
ScenarioFiles ==
    {f \in CoreFiles :
        /\ f.readable
        /\ f.tags \in {GoodTags, With(GoodTags, "Image Rating", <<"2">>),
                       Without(GoodTags, "Image Rating")}}

\* the folders of three images of the rating scenario
ScenarioLibraries == [1..3 -> ScenarioFiles]

\* the libraries: at most MaxFiles files, at most one outside CoreFiles;
\* and the three-image folders of the rating scenario
Libraries ==
    ScenarioLibraries
    \cup UNION {{l \in [1..n -> Files] :
                    Cardinality({i \in 1..n : l[i] \notin CoreFiles}) <= 1} :
                n \in 0..MaxFiles}

CoreLibraries ==
    {l \in Libraries : Len(l) <= MaxFiles /\ \A i \in 1..Len(l) : l[i] \in CoreFiles}

MinRatings == {1, 3}
LensFilters == {None, Some(<<"A">>), Some(<< >>)}

----------------------------------------------------------------------------
(* stats.py: get_exif_data *)

Returned(o) == [raised |-> FALSE, val |-> o]
Raised == [raised |-> TRUE, val |-> None]

\* parse_exif with a zero denominator decoded as 0 instead of None
parse_exif_ZeroDenom(tags, tag) ==
    IF tag \notin DOMAIN tags THEN Returned(None)
    ELSE LET value == tags[tag]
         IN  IF HasSlash(value) THEN
                 LET parts == Split(value)
                     num == float(parts[1])
                     denom == float(parts[2])
                 IN  IF Len(parts) # 2 THEN Raised
                     ELSE IF IsNone(denom) THEN Raised
                     ELSE IF ~NonZero(Get(denom)) THEN Returned(Some(Num(0, 1)))
                     ELSE IF IsNone(num) THEN Raised
                     ELSE Returned(Some(Div(Get(num), Get(denom))))
             ELSE Returned(float(value))

\* parse_exif(tag), lines 25-36.  The split and the float() calls of the
\* '/' branch are outside the try block: their ValueError propagates.
parse_exif(tags, tag) ==
    IF tag \notin DOMAIN tags THEN Returned(None)
    ELSE LET value == tags[tag]
         IN  IF HasSlash(value) THEN
                 LET parts == Split(value)
                     num == float(parts[1])
                     denom == float(parts[2])
                 IN  IF Len(parts) # 2 THEN Raised
                     ELSE IF IsNone(denom) THEN Raised
                     ELSE IF ~NonZero(Get(denom)) THEN Returned(None)
                     ELSE IF IsNone(num) THEN Raised
                     ELSE Returned(Some(Div(Get(num), Get(denom))))
             ELSE Returned(float(value))

\* line 39 without the comparison with min_rating
RatingRejected_NoThreshold(rating, minr) == IsNone(rating)

\* the test of line 39
RatingRejected(rating, minr) ==
    IsNone(rating) \/ Lt(Get(rating), Num(minr, 1))

NoRecord == [t |-> "none", rec |-> None]
RaisedResult == [t |-> "raise", rec |-> None]
Pending == [t |-> "pending", rec |-> None]

\* str(tags.get('EXIF LensModel', ''))
LensOf(tags) ==
    IF "EXIF LensModel" \in DOMAIN tags THEN tags["EXIF LensModel"] ELSE << >>

\* get_exif_data(image_path, min_rating), lines 16-50; path is the index of
\* the file in the library
get_exif_data(path, file, minr) ==
    IF ~file.readable THEN NoRecord
    ELSE LET rating == parse_exif(file.tags, "Image Rating")
             fstop == parse_exif(file.tags, "EXIF FNumber")
             iso == parse_exif(file.tags, "EXIF ISOSpeedRatings")
             shutter == parse_exif(file.tags, "EXIF ExposureTime")
             focal == parse_exif(file.tags, "EXIF FocalLength")
         IN  IF rating.raised THEN RaisedResult
             ELSE IF RatingRejected(rating.val, minr) THEN NoRecord
             ELSE IF fstop.raised \/ iso.raised \/ shutter.raised
                     \/ focal.raised THEN RaisedResult
             ELSE [t |-> "rec",
                   rec |-> Some([File |-> path,
                                 Rating |-> Get(rating.val),
                                 FStop |-> fstop.val,
                                 ISO |-> iso.val,
                                 ShutterSpeed |-> shutter.val,
                                 FocalLength |-> focal.val,
                                 Lens |-> LensOf(file.tags)])]

----------------------------------------------------------------------------
(* stats.py: analyze_folder *)

\* any(file.lower().endswith(ext) for ext in IMAGE_EXTENSIONS), line 59
IsImage(name) == \E ext \in IMAGE_EXTENSIONS : EndsWith(Lower(name), ext)

RECURSIVE SelectIdx(_, _)
\* the positions 1..n of the library that hold candidate files, in order
SelectIdx(l, n) ==
    IF n = 0 THEN << >>
    ELSE SelectIdx(l, n - 1) \o (IF IsImage(l[n].name) THEN <<n>> ELSE << >>)

\* line 69 with `not selected_lens` in place of `selected_lens is None`
KeepResult_Falsy(r, lens) ==
    /\ r.t = "rec"
    /\ (IsNone(lens) \/ Get(lens) = << >> \/ Get(r.rec).Lens = Get(lens))

\* the test of line 69
KeepResult(r, lens) ==
    /\ r.t = "rec"
    /\ (IsNone(lens) \/ Get(r.rec).Lens = Get(lens))

RECURSIVE FilterResults(_, _)
\* the loop of lines 68-70
FilterResults(rs, lens) ==
    IF rs = << >> THEN << >>
    ELSE LET r == rs[Len(rs)]
         IN  FilterResults(SubSeq(rs, 1, Len(rs) - 1), lens)
                \o (IF KeepResult(r, lens) THEN <<Get(r.rec)>> ELSE << >>)

\* pd.to_numeric(errors='coerce') on one cell: None becomes NaN
Coerce(o) == IF IsNone(o) THEN NaN ELSE Get(o)

BaseCols ==
    <<"File", "Rating", "F-Stop", "ISO", "Shutter Speed", "Focal Length",
      "Lens">>

\* one row of pd.DataFrame(data) after line 78
ToRow(m) ==
    [File |-> m.File, Rating |-> m.Rating, FStop |-> Coerce(m.FStop),
     ISO |-> Coerce(m.ISO), ShutterSpeed |-> Coerce(m.ShutterSpeed),
     FocalLength |-> Coerce(m.FocalLength), Lens |-> m.Lens,
     ShutterSpeedLog |-> None]

\* a row df.dropna() removes: a NaN in any column
HasNA(row) ==
    \/ IsNaN(row.Rating) \/ IsNaN(row.FStop) \/ IsNaN(row.ISO)
    \/ IsNaN(row.ShutterSpeed) \/ IsNaN(row.FocalLength)

RECURSIVE DropNA(_)
DropNA(rows) ==
    IF rows = << >> THEN << >>
    ELSE DropNA(SubSeq(rows, 1, Len(rows) - 1))
            \o (IF HasNA(rows[Len(rows)]) THEN << >> ELSE <<rows[Len(rows)]>>)

\* lines 76-79
BuildFrame(data) == DropNA([i \in 1..Len(data) |-> ToRow(data[i])])

\* np.log10 of one cell: -inf at 0, nan below 0, otherwise the real number
\* log10(n/d), kept symbolically
Log10(x) ==
    CASE IsNaN(x) -> NaN
      [] x.k = "inf" -> IF x.n > 0 THEN PosInf ELSE NaN
      [] x.n = 0 -> NegInf
      [] x.n < 0 -> NaN
      [] OTHER -> [k |-> "log10", n |-> x.n, d |-> x.d]

\* line 103
AddLogColumn(frame) ==
    [cols |-> frame.cols \o <<"Shutter Speed Log">>,
     rows |-> [i \in 1..Len(frame.rows) |->
                 [frame.rows[i] EXCEPT
                     !.ShutterSpeedLog = Some(Log10(frame.rows[i].ShutterSpeed))]]]

EmptyFrame == [cols |-> << >>, rows |-> << >>]

Positions == 1..Len(image_paths)

AllDone == \A i \in Positions : task[i] = "done"
NoneRaised == \A i \in Positions : results[i].t # "raise"
Running == {i \in Positions : task[i] = "running"}

\* lines 55-62 and the submission of every path to the executor, line 66
Scan ==
    /\ pc = "scan"
    /\ image_paths' = SelectIdx(lib, Len(lib))
    /\ task' = [i \in 1..Len(image_paths') |-> "queued"]
    /\ results' = [i \in 1..Len(image_paths') |-> Pending]
    /\ pc' = "map"
    /\ UNCHANGED <<lib, min_rating, selected_lens, df, dirExists, madeDir,
                   outFiles, outcome, run, history, bk>>

\* a free worker thread takes the oldest queued call
TaskStart(i) ==
    /\ pc = "map"
    /\ task[i] = "queued"
    /\ \A j \in Positions : j < i => task[j] # "queued"
    /\ Cardinality(Running) < PoolSize
    /\ task' = [task EXCEPT ![i] = "running"]
    /\ UNCHANGED <<lib, min_rating, selected_lens, pc, image_paths, results,
                   df, dirExists, madeDir, outFiles, outcome, run, history, bk>>

\* the worker finishes get_exif_data(path, min_rating), line 66
TaskFinish(i) ==
    /\ pc = "map"
    /\ task[i] = "running"
    /\ task' = [task EXCEPT ![i] = "done"]
    /\ results' = [results EXCEPT
                      ![i] = get_exif_data(image_paths[i], lib[image_paths[i]],
                                           min_rating)]
    /\ UNCHANGED <<lib, min_rating, selected_lens, pc, image_paths, df,
                   dirExists, madeDir, outFiles, outcome, run, history, bk>>

\* the first position, in input order, whose call raised: list(executor.map)
\* re-raises there; leaving the with block cancels the queued calls and
\* waits for the running ones; the exception leaves analyze_folder
Propagate ==
    /\ pc = "map"
    /\ \E i \in Positions :
          /\ task[i] = "done" /\ results[i].t = "raise"
          /\ \A j \in Positions :
                j < i => task[j] = "done" /\ results[j].t # "raise"
    /\ Running = {}
    /\ task' = [i \in Positions |->
                   IF task[i] = "queued" THEN "cancelled" ELSE task[i]]
    /\ outcome' = "raised"
    /\ pc' = "done"
    /\ UNCHANGED <<lib, min_rating, selected_lens, image_paths, results, df,
                   dirExists, madeDir, outFiles, run, history, bk>>

\* line 66 without the barrier: the results of the calls finished so far
Collected_NoBarrier == NoneRaised

\* the barrier of line 66: every result is there
Collected == AllDone /\ NoneRaised

\* line 81 without the test
DfEmpty_Never(rows) == FALSE

\* df.empty, line 81
DfEmpty(rows) == rows = << >>

\* lines 66-83: every call returned; filter, build the frame, drop the NaN
Aggregate ==
    /\ pc = "map"
    /\ Collected
    /\ LET data == FilterResults(results, selected_lens)
           rows == BuildFrame(data)
       IN  IF data = << >> THEN
               /\ outcome' = "no_valid_images"
               /\ pc' = "done"
               /\ df' = EmptyFrame
           ELSE IF DfEmpty(rows) THEN
               /\ outcome' = "no_valid_exif"
               /\ pc' = "done"
               /\ df' = [cols |-> BaseCols, rows |-> << >>]
           ELSE
               /\ outcome' = outcome
               /\ pc' = "mkdir"
               /\ df' = [cols |-> BaseCols, rows |-> rows]
    /\ UNCHANGED <<lib, min_rating, selected_lens, image_paths, task, results,
                   dirExists, madeDir, outFiles, run, history, bk>>

\* lines 85-86; os.makedirs may raise OSError
MakeDir ==
    /\ pc = "mkdir"
    /\ \/ /\ dirExists
          /\ pc' = "csv"
          /\ UNCHANGED <<dirExists, madeDir, outcome>>
       \/ /\ ~dirExists
          /\ dirExists' = TRUE
          /\ madeDir' = TRUE
          /\ pc' = "csv"
          /\ UNCHANGED outcome
       \/ /\ ~dirExists
          /\ outcome' = "error"
          /\ pc' = "done"
          /\ UNCHANGED <<dirExists, madeDir>>
    /\ UNCHANGED <<lib, min_rating, selected_lens, image_paths, task, results,
                   df, outFiles, run, history, bk>>

CsvFile(ts, frame, n, whole) ==
    [kind |-> "csv", ts |-> ts, complete |-> whole, cols |-> frame.cols,
     rows |-> SubSeq(frame.rows, 1, n)]

PlotFile(ts, whole) ==
    [kind |-> "png", ts |-> ts, complete |-> whole, cols |-> << >>,
     rows |-> << >>]

\* the directory after a file of that name is written
Put(files, f) ==
    {g \in files : ~(g.kind = f.kind /\ g.ts = f.ts)} \cup {f}

\* to_csv after line 103 instead of before it
CsvSnapshot_WithLog(frame) == AddLogColumn(frame)

\* what df.to_csv(csv_filename) writes, line 93
CsvSnapshot(frame) == frame

\* lines 91-94; to_csv may raise OSError before the file exists or after a
\* part of it is written
WriteCsv ==
    /\ pc = "csv"
    /\ \/ /\ outFiles' = Put(outFiles, CsvFile(run, CsvSnapshot(df),
                                            Len(df.rows), TRUE))
          /\ pc' = "plot"
          /\ UNCHANGED outcome
       \/ /\ \/ UNCHANGED outFiles
             \/ \E n \in 0..(Len(df.rows) - 1) :
                   outFiles' = Put(outFiles, CsvFile(run, CsvSnapshot(df), n,
                                                     FALSE))
          /\ outcome' = "error"
          /\ pc' = "done"
    /\ UNCHANGED <<lib, min_rating, selected_lens, image_paths, task, results,
                   df, dirExists, madeDir, run, history, bk>>

\* lines 96-135; plt.savefig may raise
Plot ==
    /\ pc = "plot"
    /\ df' = AddLogColumn(df)
    /\ \/ /\ outFiles' = Put(outFiles, PlotFile(run, TRUE))
          /\ outcome' = "saved"
       \/ /\ \/ UNCHANGED outFiles
             \/ outFiles' = Put(outFiles, PlotFile(run, FALSE))
          /\ outcome' = "error"
    /\ pc' = "done"
    /\ UNCHANGED <<lib, min_rating, selected_lens, image_paths, task, results,
                   dirExists, madeDir, run, history, bk>>

\* the rows a run ended with, without the derived column
RowSet(frame) ==
    {[frame.rows[i] EXCEPT !.ShutterSpeedLog = None] : i \in 1..Len(frame.rows)}

\* analyze_folder is called again on the unchanged folder, a second later
Rerun ==
    /\ pc = "done"
    /\ run < MaxRuns
    /\ history' = Append(history, [rows |-> RowSet(df), outcome |-> outcome])
    /\ run' = run + 1
    /\ pc' = "scan"
    /\ image_paths' = << >>
    /\ task' = << >>
    /\ results' = << >>
    /\ df' = EmptyFrame
    /\ madeDir' = FALSE
    /\ outcome' = "running"
    /\ UNCHANGED <<lib, min_rating, selected_lens, dirExists, outFiles, bk>>

\* pictureBackup.main: before it is started
BkStart ==
    [pc |-> "select_partition", steps |-> << >>, exit |-> -1,
     failed |-> "none", parts |-> 0, device |-> 0, mounted |-> FALSE,
     byTool |-> FALSE, dirs |-> << >>, use_delete |-> FALSE,
     command |-> << >>, rsync |-> "none"]

BkIdle == [BkStart EXCEPT !.pc = "off"]

Init ==
    /\ lib \in Libraries
    /\ min_rating \in MinRatings
    /\ selected_lens \in LensFilters
    /\ pc = "scan"
    /\ image_paths = << >>
    /\ task = << >>
    /\ results = << >>
    /\ df = EmptyFrame
    /\ dirExists = FALSE
    /\ madeDir = FALSE
    /\ outFiles = {}
    /\ outcome = "running"
    /\ run = 1
    /\ history = << >>
    /\ bk = BkIdle

Next ==
    \/ Scan
    \/ \E i \in Positions : TaskStart(i)
    \/ \E i \in Positions : TaskFinish(i)
    \/ Propagate
    \/ Aggregate
    \/ MakeDir
    \/ WriteCsv
    \/ Plot

Spec == Init /\ [][Next]_vars

\* the same folder analysed up to MaxRuns times
InitTwice ==
    /\ Init
    /\ lib \in CoreLibraries

NextTwice ==
    \/ Next
    \/ Rerun

SpecTwice == InitTwice /\ [][NextTwice]_vars

----------------------------------------------------------------------------
(* pictureBackup.py: main *)

\* sys.exit(code) after the command `what` failed
Exit(b, code, what) == [b EXCEPT !.pc = "exited", !.exit = code, !.failed = what]

\* the function `name` of main is entered
Step(b, name) == [b EXCEPT !.steps = Append(b.steps, name)]

\* lines 17-19 and 42-44: lsblk failed, or it lists no partition
NoPartitions(b, what) == Exit(b, 1, what)

\* list_partitions and the test of select_partition, lines 9-44 and 184
SelectPartition ==
    /\ bk.pc = "select_partition"
    /\ LET b == Step(bk, "select_partition")
       IN  \/ bk' = NoPartitions(b, "lsblk")
           \/ bk' = NoPartitions(b, "no partitions")
           \/ \E n \in 1..MaxParts : bk' = [b EXCEPT !.pc = "choose", !.parts = n]
    /\ UNCHANGED <<lib, min_rating, selected_lens, pc, image_paths, task,
                   results, df, dirExists, madeDir, outFiles, outcome, run,
                   history>>

\* the input loop of select_partition, lines 51-63, up to the input that
\* leaves it: q, or the number of a listed partition; the partition may be
\* mounted already
ChoosePartition ==
    /\ bk.pc = "choose"
    /\ \/ bk' = Exit(bk, 0, "none")
       \/ \E idx \in 1..bk.parts, m \in BOOLEAN :
             bk' = [bk EXCEPT !.pc = "mount_device", !.device = idx,
                              !.mounted = m]
    /\ UNCHANGED <<lib, min_rating, selected_lens, pc, image_paths, task,
                   results, df, dirExists, madeDir, outFiles, outcome, run,
                   history>>

\* lines 77-79 and 105-107: lsblk, mkdir or mount failed
MountFailed(b, what) == Exit(b, 1, what)

\* mount_device, lines 65-107 and 185
MountDevice ==
    /\ bk.pc = "mount_device"
    /\ LET b == Step(bk, "mount_device")
       IN  \/ bk' = MountFailed(b, "lsblk")
           \/ /\ bk.mounted
              /\ bk' = [b EXCEPT !.pc = "check_disk_usage"]
           \/ /\ ~bk.mounted
              /\ \/ bk' = MountFailed(b, "mkdir")
                 \/ bk' = MountFailed(b, "mount")
                 \/ bk' = [b EXCEPT !.pc = "check_disk_usage",
                                    !.mounted = TRUE, !.byTool = TRUE]
    /\ UNCHANGED <<lib, min_rating, selected_lens, pc, image_paths, task,
                   results, df, dirExists, madeDir, outFiles, outcome, run,
                   history>>

\* check_disk_usage, lines 177-179, as called on lines 186 and 192: the exit
\* status of df is not looked at
CheckDiskUsage ==
    /\ bk.pc \in {"check_disk_usage", "check_disk_usage_2"}
    /\ bk' = [Step(bk, "check_disk_usage") EXCEPT
                 !.pc = IF bk.pc = "check_disk_usage"
                        THEN "select_source_directories"
                        ELSE "unmount_device"]
    /\ UNCHANGED <<lib, min_rating, selected_lens, pc, image_paths, task,
                   results, df, dirExists, madeDir, outFiles, outcome, run,
                   history>>

InSeq(x, q) == \E i \in 1..Len(q) : q[i] = x

\* one pass of the loop of select_source_directories, lines 125-144, that
\* adds a directory: an existing directory not yet selected
AddSourceDirectory(d) ==
    /\ bk.pc = "select_source_directories"
    /\ ~InSeq(d, bk.dirs)
    /\ bk' = [bk EXCEPT !.dirs = Append(bk.dirs, d)]
    /\ UNCHANGED <<lib, min_rating, selected_lens, pc, image_paths, task,
                   results, df, dirExists, madeDir, outFiles, outcome, run,
                   history>>

\* the empty line that ends the loop, lines 127-129 and 146
SourcesSelected ==
    /\ bk.pc = "select_source_directories"
    /\ bk.dirs # << >>
    /\ bk' = [Step(bk, "select_source_directories") EXCEPT
                 !.pc = "ask_delete_option"]
    /\ UNCHANGED <<lib, min_rating, selected_lens, pc, image_paths, task,
                   results, df, dirExists, madeDir, outFiles, outcome, run,
                   history>>

\* ask_delete_option, lines 148-157, up to the answer that leaves the loop
AskDeleteOption ==
    /\ bk.pc = "ask_delete_option"
    /\ \E choice \in {"y", "n", ""} :
          bk' = [Step(bk, "ask_delete_option") EXCEPT
                    !.pc = "run_backup", !.use_delete = (choice = "y")]
    /\ UNCHANGED <<lib, min_rating, selected_lens, pc, image_paths, task,
                   results, df, dirExists, madeDir, outFiles, outcome, run,
                   history>>

\* the rsync command line, lines 160-167
RsyncCommand(source_dirs, dest, use_delete) ==
    <<"--checksum">> \o (IF use_delete THEN <<"--delete">> ELSE << >>)
        \o [i \in 1..Len(source_dirs) |-> "source"] \o <<"dest">>

\* run_backup without the sys.exit(1) of line 175
BackupFailed_Continue(b) ==
    [b EXCEPT !.pc = "check_disk_usage_2", !.rsync = "failed",
              !.failed = "rsync"]

\* lines 173-175: rsync exited with a non-zero status
BackupFailed(b) == [Exit(b, 1, "rsync") EXCEPT !.rsync = "failed"]

\* run_backup, lines 159-175 and 190
RunBackup ==
    /\ bk.pc = "run_backup"
    /\ LET b == [Step(bk, "run_backup") EXCEPT
                    !.command = RsyncCommand(bk.dirs, bk.device, bk.use_delete)]
       IN  \/ bk' = [b EXCEPT !.pc = "check_disk_usage_2", !.rsync = "ok"]
           \/ bk' = BackupFailed(b)
    /\ UNCHANGED <<lib, min_rating, selected_lens, pc, image_paths, task,
                   results, df, dirExists, madeDir, outFiles, outcome, run,
                   history>>

\* unmount_device, lines 109-115 and 193, and the end of main: a failed
\* umount is printed and main returns normally
UnmountDevice ==
    /\ bk.pc = "unmount_device"
    /\ LET b == Step(bk, "unmount_device")
       IN  \/ bk' = [Exit(b, 0, "none") EXCEPT !.mounted = FALSE]
           \/ bk' = Exit(b, 0, "umount")
    /\ UNCHANGED <<lib, min_rating, selected_lens, pc, image_paths, task,
                   results, df, dirExists, madeDir, outFiles, outcome, run,
                   history>>

InitBackup ==
    /\ lib = << >>
    /\ min_rating = 1
    /\ selected_lens = None
    /\ pc = "off"
    /\ image_paths = << >>
    /\ task = << >>
    /\ results = << >>
    /\ df = EmptyFrame
    /\ dirExists = FALSE
    /\ madeDir = FALSE
    /\ outFiles = {}
    /\ outcome = "off"
    /\ run = 1
    /\ history = << >>
    /\ bk = BkStart

NextBackup ==
    \/ SelectPartition
    \/ ChoosePartition
    \/ MountDevice
    \/ CheckDiskUsage
    \/ \E d \in 1..MaxDirs : AddSourceDirectory(d)
    \/ SourcesSelected
    \/ AskDeleteOption
    \/ RunBackup
    \/ UnmountDevice

SpecBackup == InitBackup /\ [][NextBackup]_vars

----------------------------------------------------------------------------
(* Properties of analyze_folder *)

CsvFiles == {f \in outFiles : f.kind = "csv"}
RunFiles == {f \in outFiles : f.ts = run}

SeqSet(q) == {q[i] : i \in 1..Len(q)}

\* the rows of the in-memory table and of every CSV file written
TableRows == SeqSet(df.rows) \cup UNION {SeqSet(f.rows) : f \in CsvFiles}

\* the batch was collected and filtered (line 68 was reached)
Aggregated == pc \in {"mkdir", "csv", "plot", "done"} /\ outcome # "raised"

UndecodableTexts == { <<"x">>, <<"1", "/", "x">>, <<"n", "a", "n">> }

\* the rating tag of the file is missing, is no number, or is below minr
LowRated(f, minr) ==
    \/ "Image Rating" \notin DOMAIN f.tags
    \/ f.tags["Image Rating"] \in UndecodableTexts
    \/ (f.tags["Image Rating"] = <<"2">> /\ minr > 2)

AtLeast(x, m) == x.k = "num" /\ x.n >= m * x.d

\* C1: no row of the table belongs to a file whose rating tag is missing,
\* undecodable or below min_rating, and every row has Rating >= min_rating
C1_RatingFilter ==
    \A row \in TableRows :
        /\ ~LowRated(lib[row.File], min_rating)
        /\ AtLeast(row.Rating, min_rating)

\* C1: three images, the first without a rating, the second of rating 2,
\* the third of rating 5, min_rating = 3: the report holds exactly the row
\* of the third
C1_Witness ==
    /\ pc = "done" /\ outcome = "saved" /\ min_rating = 3
    /\ Len(lib) = 3
    /\ lib[1].tags = Without(GoodTags, "Image Rating")
    /\ lib[2].tags = With(GoodTags, "Image Rating", <<"2">>)
    /\ lib[3].tags = GoodTags
    /\ \E f \in CsvFiles :
          /\ f.complete
          /\ Len(f.rows) = 1
          /\ f.rows[1].File = 3
          /\ f.rows[1].Rating = [k |-> "num", n |-> 5, d |-> 1]
          /\ f.rows[1].ShutterSpeed = [k |-> "num", n |-> 1, d |-> 250]

Positive(x) == x.k = "num" /\ x.n > 0

\* the rows written to a CSV file, and the rows np.log10 is about to be
\* applied to
ReportedRows ==
    UNION {SeqSet(f.rows) : f \in CsvFiles}
        \cup (IF pc = "plot" THEN SeqSet(df.rows) ELSE {})

\* C2: every row of the output table has finite F-Stop, ISO, Shutter Speed
\* and Focal Length, each > 0; no row with a value <= 0 is written or
\* reaches the log10 step
C2_NumericDomain ==
    \A row \in ReportedRows :
        /\ Positive(row.FStop)
        /\ Positive(row.ISO)
        /\ Positive(row.ShutterSpeed)
        /\ Positive(row.FocalLength)

\* C3: no extraction failure aborts the batch: when analyze_folder ends,
\* every call of get_exif_data has yielded absent or a record and the batch
\* was not ended by an exception
C3_FailureIsolation ==
    pc = "done" =>
        /\ \A i \in Positions : task[i] = "done" /\ results[i].t # "raise"
        /\ outcome # "raised"

\* the record get_exif_data returned for position i passes lines 76-79
Valid(i) == results[i].t = "rec" /\ ~HasNA(ToRow(Get(results[i].rec)))

\* C4: with a lens filter every row's Lens equals it; without one every
\* record that passed the rating threshold and the numeric validation has
\* its row, whatever its lens
C4_LensFilter ==
    /\ ~IsNone(selected_lens) =>
          \A row \in TableRows : row.Lens = Get(selected_lens)
    /\ (IsNone(selected_lens) /\ Aggregated) =>
          \A i \in Positions :
              Valid(i) =>
                  \E k \in 1..Len(df.rows) :
                      /\ df.rows[k].File = image_paths[i]
                      /\ df.rows[k].Lens = LensOf(lib[image_paths[i]].tags)

\* C4: filter "A" over a library with a lens-B file and a lens-A file
C4_Witness ==
    /\ pc = "done" /\ outcome = "saved"
    /\ selected_lens = Some(<<"A">>)
    /\ \E i, j \in Positions :
          /\ Valid(i) /\ Get(results[i].rec).Lens = <<"B">>
          /\ Valid(j) /\ Get(results[j].rec).Lens = <<"A">>
          /\ \E f \in CsvFiles : f.complete /\ Len(f.rows) = 1

\* the value a tag text of the form num/denom stands for; None if denom = 0
RationalTexts ==
    { <<"2", "8", "/", "1", "0">>, <<"1", "/", "2", "5", "0">>,
      <<"0", "/", "1">>, <<"1", "/", "0">>, <<"4", "/", "0">> }

ExpectedRational(text) ==
    CASE text = <<"2", "8", "/", "1", "0">> -> Some([k |-> "num", n |-> 14, d |-> 5])
      [] text = <<"1", "/", "2", "5", "0">> -> Some([k |-> "num", n |-> 1, d |-> 250])
      [] text = <<"0", "/", "1">> -> Some([k |-> "num", n |-> 0, d |-> 1])
      [] text = <<"1", "/", "0">> -> None
      [] text = <<"4", "/", "0">> -> None

FieldOf(rec, tag) ==
    CASE tag = "EXIF FNumber" -> rec.FStop
      [] tag = "EXIF ISOSpeedRatings" -> rec.ISO
      [] tag = "EXIF ExposureTime" -> rec.ShutterSpeed
      [] tag = "EXIF FocalLength" -> rec.FocalLength

\* C5: a tag text num/denom decodes to num divided by denom, and to missing
\* when denom is 0; a file with a missing numeric field has no row
C5_RationalDecoding ==
    \A i \in Positions :
        results[i].t = "rec" =>
            LET rec == Get(results[i].rec)
                tags == lib[image_paths[i]].tags
            IN  /\ \A tag \in NumericTags \cap DOMAIN tags :
                      tags[tag] \in RationalTexts =>
                          FieldOf(rec, tag) = ExpectedRational(tags[tag])
                /\ (\E tag \in NumericTags : IsNone(FieldOf(rec, tag))) =>
                      \A row \in TableRows : row.File # image_paths[i]

\* C5: '1/250' decoded to 1/250 and reported, '1/0' decoded to missing and
\* its file left out
C5_Witness ==
    /\ pc = "done" /\ outcome = "saved"
    /\ \E i, j \in Positions :
          /\ lib[image_paths[i]].tags["EXIF ExposureTime"] = <<"1", "/", "0">>
          /\ results[i].t = "rec"
          /\ IsNone(Get(results[i].rec).ShutterSpeed)
          /\ lib[image_paths[j]].tags["EXIF ExposureTime"] = <<"1", "/", "2", "5", "0">>
          /\ \E f \in CsvFiles :
                /\ f.complete
                /\ Len(f.rows) = 1
                /\ f.rows[1].File = image_paths[j]
                /\ f.rows[1].ShutterSpeed = [k |-> "num", n |-> 1, d |-> 250]

\* every candidate file was rejected by the rating test or the lens filter,
\* or its row was dropped by the numeric validation
AcceptedEmpty ==
    \A i \in Positions :
        /\ task[i] = "done"
        /\ \/ results[i].t = "none"
           \/ /\ results[i].t = "rec"
              /\ \/ ~IsNone(selected_lens)
                    /\ Get(results[i].rec).Lens # Get(selected_lens)
                 \/ HasNA(ToRow(Get(results[i].rec)))

NoData == outcome \in {"no_valid_images", "no_valid_exif"}

\* C6: when no row is accepted, analyze_folder ends with "no data", has not
\* created the output directory and has written no CSV and no plot
C6_EmptyResult ==
    (pc \notin {"scan", "map"} /\ AcceptedEmpty) =>
        /\ pc = "done"
        /\ NoData
        /\ ~madeDir
        /\ RunFiles = {}

\* C6: a library whose only rows are dropped by the numeric validation
C6_Witness ==
    /\ pc = "done"
    /\ outcome = "no_valid_exif"
    /\ Positions # {}
    /\ \A i \in Positions : results[i].t = "rec"
    /\ RunFiles = {}
    /\ ~dirExists

\* C7: every run over the unchanged folder, with the same min_rating and
\* lens filter, ends with the same set of rows, whatever the order in which
\* the worker threads took and finished the calls
C7_Idempotent ==
    pc = "done" =>
        \A h \in 1..Len(history) : history[h].rows = RowSet(df)

\* C7: a second run over two accepted files ended with the rows of the first
C7_Witness ==
    /\ pc = "done"
    /\ run = 2
    /\ Len(history) = 1
    /\ Cardinality(RowSet(df)) = 2
    /\ history[1].rows = RowSet(df)

\* C8: a run that failed while writing leaves no file of its timestamp
C8_NoPartialReport ==
    (pc = "done" /\ outcome = "error") => RunFiles = {}

\* C9 as stated: the CSV written holds the derived Shutter Speed Log column
C9_LogInSnapshot ==
    \A f \in CsvFiles : f.complete => InSeq("Shutter Speed Log", f.cols)

\* C9: the CSV has one row per accepted image with the columns File, Rating,
\* F-Stop, ISO, Shutter Speed, Focal Length, Lens; the derived Shutter Speed
\* Log column is added to the in-memory table after the CSV is written and
\* is in no CSV
C9_SnapshotColumns ==
    /\ \A f \in CsvFiles :
          /\ f.cols = BaseCols
          /\ \A row \in SeqSet(f.rows) : IsNone(row.ShutterSpeedLog)
    /\ \A f \in CsvFiles \cap RunFiles :
          f.complete => { r.File : r \in SeqSet(f.rows) }
                            = { r.File : r \in SeqSet(df.rows) }
    /\ InSeq("Shutter Speed Log", df.cols) =>
          /\ \E f \in CsvFiles \cap RunFiles : f.complete
          /\ \A row \in SeqSet(df.rows) : ~IsNone(row.ShutterSpeedLog)

\* C9: a finished run: the CSV without the derived column, the table with it
C9_Witness ==
    /\ pc = "done" /\ outcome = "saved"
    /\ InSeq("Shutter Speed Log", df.cols)
    /\ \E f \in CsvFiles \cap RunFiles :
          /\ f.complete
          /\ Len(f.rows) = 2
          /\ ~InSeq("Shutter Speed Log", f.cols)

----------------------------------------------------------------------------
(* Properties of pictureBackup.main *)

MainOrder ==
    <<"select_partition", "mount_device", "check_disk_usage",
      "select_source_directories", "ask_delete_option", "run_backup",
      "check_disk_usage", "unmount_device">>

IsPrefix(p, q) == Len(p) <= Len(q) /\ SubSeq(q, 1, Len(p)) = p

\* C10: the steps of main occur in the order of MainOrder; unmount_device is
\* attempted only after rsync succeeded; a failure of lsblk, mkdir, mount or
\* rsync ends the program with status 1, before rsync (lsblk, mkdir, mount)
\* or before unmount (rsync), so a device the tool mounted stays mounted
C10_BackupOrder ==
    /\ IsPrefix(bk.steps, MainOrder)
    /\ InSeq("unmount_device", bk.steps) =>
          bk.rsync = "ok"
    /\ bk.failed \in {"lsblk", "mkdir", "mount", "rsync"} =>
          /\ bk.pc = "exited"
          /\ bk.exit = 1
          /\ ~InSeq("unmount_device", bk.steps)
    /\ bk.failed \in {"lsblk", "mkdir", "mount"} =>
          ~InSeq("run_backup", bk.steps)
    /\ (bk.failed = "rsync" /\ bk.byTool) => bk.mounted
    /\ (bk.pc = "exited" /\ bk.rsync = "ok") => bk.steps = MainOrder

\* C10: rsync failed on a device the tool had mounted
C10_Witness ==
    /\ bk.pc = "exited"
    /\ bk.exit = 1
    /\ bk.failed = "rsync"
    /\ bk.byTool
    /\ bk.mounted
    /\ bk.steps = SubSeq(MainOrder, 1, 6)

====
